---- MODULE Spec2Model ----
(***************************************************************************)
(* State-machine model of popularEventsScrapper.py (class EventScraper).   *)
(*                                                                         *)
(* The fetcher (requests), the extraction / cleaning engine (self.llm)     *)
(* and the CRM client (self.sf) are external collaborators: each call to   *)
(* one of them is a nondeterministic choice among the outcomes the call    *)
(* can have (it raises, or it returns some value).                         *)
(*                                                                         *)
(* An Event carries the fields name, date, description and source.  The    *)
(* fields venue, category and url are copied by the code exactly as name   *)
(* and date are and no statement below reads them.                         *)
(***************************************************************************)
EXTENDS Integers, Sequences, FiniteSets, TLC

\* ---------------------------------------------------------------- bounds
\* Longest JSON array one extraction response holds.
MaxResp == 2

\* Most candidates all the adapters yield in one run.
MaxPool == 2

\* Longest JSON array the cleaning response holds.
MaxCleanLen == 2

\* Sync calls made in a row on one event list.
MaxSyncCalls == 2

\* ------------------------------------------------------ program constants
\* events[:10]
SummaryLimit == 10

\* run_event_scraping_for_location('Austin', 'January', 2024)
WindowYear == 2024

WindowMonth == "January"

VARIABLES
    pc,              \* "scrape" | "clean" | "sync" | "done"; "api" and
                     \* "clean_in" | "clean_out" | "clean_twice" | "clean_raised"
                     \* for the stand-alone uses of the sync and the cleaning step
    location,        \* location_name
    unit,            \* index in Units of the next fetch to make
    invoked,         \* the source functions called so far, in call order
    failed,          \* TRUE when the latest fetch logged an error or a warning
    source_events,   \* the list of the adapter called last (its events, then
                     \* source_events of the runner)
    raw_events,      \* events / raw_events
    cleaned_events,  \* cleaned_events
    clean_llm,       \* how the LLM call of the latest cleaning step ended,
                     \* "not_called" when there was none
    fault,           \* exception that left the try body of the entry point
    escaped,         \* TRUE when an exception left the entry point
    report,          \* the dictionary the entry point returned
    sync_returns,    \* values returned by update_salesforce_location, in order
    sf_ops,          \* CRM operations of the latest sync call, with outcomes
    sf_records,      \* Event__c records held by the CRM
    sf_updates       \* Location.update payloads applied by the CRM

vars == <<pc, location, unit, invoked, failed, source_events, raw_events, cleaned_events,
          clean_llm, fault, escaped, report, sync_returns, sf_ops, sf_records, sf_updates>>

\* ---------------------------------------------------------------- helpers
BSeq(S, n) == UNION {[1..k -> S] : k \in 0..n}

Range(s) == {s[i] : i \in 1..Len(s)}

Prefix(s, n) == IF Len(s) <= n THEN s ELSE SubSeq(s, 1, n)

IsPrefix(s, t) == Len(s) <= Len(t) /\ SubSeq(t, 1, Len(s)) = s

\* --------------------------------------------------------- JSON documents
\* A value that stands for a JSON value which is not a string (a number).
NonString == "<number 7>"

\* An element of a JSON array that is not an object ("x".get raises
\* AttributeError).
NonObject == [nonobject |-> TRUE]

IsObject(x) == "nonobject" \notin DOMAIN x

\* dict.get(key, '')
Get(x, key) == IF key \in DOMAIN x THEN x[key] ELSE ""

\* The objects an extraction response is made of: a well-formed in-window
\* event, an empty name, an out-of-window date, an object with the date and
\* description keys missing (no date to parse), a non-string description.
\* The code never reads a date, so one date outside the window stands for all.
ExtractedObjects ==
    { [name |-> "Jazz Night", date |-> "2024-01-15", description |-> "live"],
      [name |-> "",           date |-> "2024-01-15", description |-> "live"],
      [name |-> "Jazz Night", date |-> "2024-02-20", description |-> "live"],
      [name |-> "Jazz Night"],
      [name |-> "Jazz Night", date |-> "2024-01-15", description |-> NonString] }

\* What one LLM call does: it raises, or its content is not JSON, or is a JSON
\* value that cannot be iterated (null, a number), or is an array.  A JSON
\* object or string at the top level iterates over strings, which is the array
\* of NonObject elements.
LlmOutcomes(Objects, n) ==
    { [kind |-> k, items |-> <<>>] : k \in {"llm_error", "bad_json", "not_iterable"} }
    \cup { [kind |-> "array", items |-> s] : s \in BSeq(Objects \cup {NonObject}, n) }

\* ------------------------------------------------------------------ Event
Event(n, d, desc, s) == [name |-> n, date |-> d, description |-> desc, source |-> s]

\* ------------------------------------------------------------ the adapters
\* One entry per fetch: the source function, the source tag it stamps on its
\* events and whether the fetch is the first or the last one of its function.
Units ==
    << [func |-> "_scrape_eventbrite", source |-> "Eventbrite",
        first |-> TRUE, last |-> TRUE],
       [func |-> "_scrape_ticketmaster", source |-> "Ticketmaster",
        first |-> TRUE, last |-> TRUE],
       [func |-> "_scrape_local_events_sites", source |-> "Local Events",
        first |-> TRUE, last |-> FALSE],
       [func |-> "_scrape_local_events_sites", source |-> "Local Events",
        first |-> FALSE, last |-> FALSE],
       [func |-> "_scrape_local_events_sites", source |-> "Local Events",
        first |-> FALSE, last |-> TRUE],
       [func |-> "_scrape_tripadvisor", source |-> "TripAdvisor",
        first |-> TRUE, last |-> TRUE] >>

NumUnits == Len(Units)

\* A location_name that is not a string (None): location.lower() raises
\* AttributeError.
NotAString == "<None>"

\* _scrape_local_events_sites evaluates location.lower() when it builds
\* local_sites, outside every try statement: the adapter raises before its
\* first fetch.
AdapterRaises(u, location_name) ==
    u.func = "_scrape_local_events_sites" /\ u.first /\ location_name = NotAString

\* The first fetch of the source function after the one fetch k belongs to.
NextFunction(k) ==
    IF \E j \in (k + 1)..NumUnits : Units[j].first
    THEN CHOOSE j \in (k + 1)..NumUnits :
            Units[j].first /\ \A i \in (k + 1)..(j - 1) : ~Units[i].first
    ELSE NumUnits + 1

Sources == <<"_scrape_eventbrite", "_scrape_ticketmaster",
             "_scrape_local_events_sites", "_scrape_tripadvisor">>

\* What a fetch can end in: requests.get / raise_for_status raises, or the LLM
\* call is made.
AdapterOutcomes ==
    { [kind |-> "network_error", items |-> <<>>] }
    \cup LlmOutcomes(ExtractedObjects, MaxResp)

\* _scrape_tripadvisor evaluates location.lower() inside its try statement:
\* with a location that is not a string the fetch ends there.
OutcomesFor(u, location_name) ==
    IF u.func = "_scrape_tripadvisor" /\ location_name = NotAString
    THEN { [kind |-> "url_error", items |-> <<>>] }
    ELSE AdapterOutcomes

\* for event_data in events_data: events.append(Event(...)); the loop stops at
\* the first element that is not an object and keeps what it appended.
RECURSIVE ParseCandidates(_, _)
ParseCandidates(items, source) ==
    IF items = <<>> \/ ~IsObject(Head(items)) THEN <<>>
    ELSE <<Event(Get(Head(items), "name"), Get(Head(items), "date"),
                 Get(Head(items), "description"), source)>>
         \o ParseCandidates(Tail(items), source)

HasNonObject(items) == \E i \in 1..Len(items) : ~IsObject(items[i])

\* The events one fetch adds to the adapter's list.
AdapterEvents(o, source) ==
    IF o.kind = "array" THEN ParseCandidates(o.items, source) ELSE <<>>

\* The fetch logged an error (except Exception) or a warning (JSONDecodeError).
AdapterFailed(o) == o.kind # "array" \/ HasNonObject(o.items)

\* A faulty Extend: events = source_events + events, the list is put in front.
Extend_Prepend(events, more) == more \o events

\* A faulty Extend: events = source_events, the pool is overwritten.
Extend_Overwrite(events, more) == more

\* events.extend(source_events)
Extend(events, more) == events \o more

\* ------------------------------------------------ process_and_clean_events
\* The objects a cleaning response is made of: the events it was given, and an
\* object with every key but name missing.
CleanObjects(events) == Range(events) \cup { [name |-> "Jazz Night"] }

CleanOutcomes(events) == LlmOutcomes(CleanObjects(events), MaxCleanLen)

\* cleaned_events.append(Event(name=event_data.get('name', ''), ...,
\*                             source=event_data.get('source', '')))
ParseCleaned(items) ==
    [i \in 1..Len(items) |->
        Event(Get(items[i], "name"), Get(items[i], "date"),
              Get(items[i], "description"), Get(items[i], "source"))]

Returned(v) == [raised |-> "none", value |-> v]

Raised(e) == [raised |-> e, value |-> <<>>]

\* A faulty process_and_clean_events: except json.JSONDecodeError returns [].
process_and_clean_events_DropsOnBadJson(events, o) ==
    IF events = <<>> THEN [raised |-> "none", value |-> <<>>]
    ELSE CASE o.kind = "llm_error"    -> [raised |-> "LLMError", value |-> <<>>]
           [] o.kind = "bad_json"     -> [raised |-> "none", value |-> <<>>]
           [] o.kind = "not_iterable" -> [raised |-> "TypeError", value |-> <<>>]
           [] o.kind = "array"        ->
                IF HasNonObject(o.items)
                THEN [raised |-> "AttributeError", value |-> <<>>]
                ELSE [raised |-> "none", value |-> ParseCleaned(o.items)]

\* if not events: return [] comes before the LLM call.
LlmCall(events, o) == IF events = <<>> THEN "not_called" ELSE o.kind

\* process_and_clean_events(events) when the LLM call ends in o.  Only
\* json.JSONDecodeError is caught; every other exception leaves the method.
process_and_clean_events(events, o) ==
    IF events = <<>> THEN Returned(<<>>)
    ELSE CASE o.kind = "llm_error"    -> Raised("LLMError")
           [] o.kind = "bad_json"     -> Returned(events)
           [] o.kind = "not_iterable" -> Raised("TypeError")
           [] o.kind = "array"        ->
                IF HasNonObject(o.items) THEN Raised("AttributeError")
                ELSE Returned(ParseCleaned(o.items))

\* ---------------------------------------------- update_salesforce_location
\* Location records of the CRM: Name -> Id.
LocationIds == [Austin |-> "131000000000001"]

LocationNames == {"Austin", "Nowhere", NotAString}

QueryOutcomes == {"ok", "raise"}

CreateOutcomes == {"ok", "schema_error", "transient_error", "permanent_error"}

UpdateOutcomes == {"ok", "raise"}

\* self.sf.query(...)['records']
QueryRecords(location_name) ==
    IF location_name \in DOMAIN LocationIds
    THEN <<[Id |-> LocationIds[location_name], Name |-> location_name]>>
    ELSE <<>>

LongText == "<300 characters>"

\* event.description[:255] if event.description else ''
Truncate255(d) == IF d = LongText THEN "<255 characters>" ELSE d

\* Slicing a description that is neither empty nor a string raises TypeError.
PrepRaises(events) == \E i \in 1..Len(events) : events[i].description = NonString

EventsData(events, location_id) ==
    [i \in 1..Len(events) |->
        [Name |-> events[i].name, Event_Date__c |-> events[i].date,
         Description__c |-> Truncate255(events[i].description),
         Source__c |-> events[i].source, Location__c |-> location_id]]

\* json.dumps([{name, date, venue, category} for event in events[:10]])
EventsSummary(events) ==
    LET head == Prefix(events, SummaryLimit)
    IN  [i \in 1..Len(head) |-> [name |-> head[i].name, date |-> head[i].date]]

\* A faulty FallsBack: the handler catches the transient class only.
FallsBack_TransientOnly(c) == c = "transient_error"

\* The bare except around self.sf.Event__c.create: the create outcomes after
\* which the summary-field update is made.
FallsBack(c) == c # "ok"

Op(name, outcome) == [op |-> name, outcome |-> outcome]

\* A faulty update_salesforce_location: the failure of Location.update is
\* swallowed and True is returned.
update_salesforce_location_SwallowsUpdate(location_name, events, q, c, u, recs, upds) ==
    LET found == QueryRecords(location_name)
        out(ret, ops, r, p) == [ret |-> ret, ops |-> ops, records |-> r, updates |-> p]
    IN  IF q = "raise" THEN out(FALSE, <<Op("query", "raise")>>, recs, upds)
        ELSE IF found = <<>> THEN out(FALSE, <<Op("query", "none")>>, recs, upds)
        ELSE IF PrepRaises(events) THEN out(FALSE, <<Op("query", "found")>>, recs, upds)
        ELSE IF c = "ok"
             THEN out(TRUE, <<Op("query", "found"), Op("create", "ok")>>,
                      recs \o EventsData(events, found[1].Id), upds)
        ELSE IF u = "ok"
             THEN out(TRUE, <<Op("query", "found"), Op("create", c), Op("update", "ok")>>,
                      recs,
                      Append(upds, [Id |-> found[1].Id,
                                    Events_Summary__c |-> EventsSummary(events),
                                    Last_Events_Update__c |-> "today"]))
        ELSE out(TRUE, <<Op("query", "found"), Op("create", c), Op("update", "raise")>>,
                 recs, upds)

\* update_salesforce_location(location_name, events) on a CRM holding the
\* detail records recs and the applied updates upds, when the query ends in q,
\* the create in c and the update in u: the value returned, the CRM operations
\* issued and the CRM's new content.
update_salesforce_location(location_name, events, q, c, u, recs, upds) ==
    LET found == QueryRecords(location_name)
        out(ret, ops, r, p) == [ret |-> ret, ops |-> ops, records |-> r, updates |-> p]
    IN  IF q = "raise" THEN out(FALSE, <<Op("query", "raise")>>, recs, upds)
        ELSE IF found = <<>> THEN out(FALSE, <<Op("query", "none")>>, recs, upds)
        ELSE IF PrepRaises(events) THEN out(FALSE, <<Op("query", "found")>>, recs, upds)
        ELSE IF c = "ok"
             THEN out(TRUE, <<Op("query", "found"), Op("create", "ok")>>,
                      recs \o EventsData(events, found[1].Id), upds)
        ELSE IF ~FallsBack(c)
             THEN out(FALSE, <<Op("query", "found"), Op("create", c)>>, recs, upds)
        ELSE IF u = "ok"
             THEN out(TRUE, <<Op("query", "found"), Op("create", c), Op("update", "ok")>>,
                      recs,
                      Append(upds, [Id |-> found[1].Id,
                                    Events_Summary__c |-> EventsSummary(events),
                                    Last_Events_Update__c |-> "today"]))
        ELSE out(FALSE, <<Op("query", "found"), Op("create", c), Op("update", "raise")>>,
                 recs, upds)

\* ----------------------------------------- run_event_scraping_for_location
NoReport == [returned |-> FALSE]

SuccessReport(success, location_name, raw, cleaned) ==
    [returned |-> TRUE, success |-> success, location |-> location_name,
     month |-> WindowMonth, year |-> WindowYear,
     raw_events_count |-> Len(raw), cleaned_events_count |-> Len(cleaned),
     events |-> [i \in 1..Len(cleaned) |->
                    [name |-> cleaned[i].name, date |-> cleaned[i].date,
                     source |-> cleaned[i].source]]]

ErrorReport(e, location_name) ==
    [returned |-> TRUE, success |-> FALSE, error |-> e, location |-> location_name,
     month |-> WindowMonth, year |-> WindowYear]

\* A faulty RunCatches: except json.JSONDecodeError, as in the cleaning step.
RunCatches_JsonOnly(e) == e = "JSONDecodeError"

\* except Exception as e: the exceptions the entry point's handler catches.
RunCatches(e) == TRUE

\* The state before any call, but for pc and the two event lists.
Fresh ==
    /\ location \in LocationNames
    /\ unit = 1
    /\ invoked = <<>>
    /\ failed = FALSE
    /\ source_events = <<>>
    /\ clean_llm = "not_called"
    /\ fault = "none"
    /\ escaped = FALSE
    /\ report = NoReport
    /\ sync_returns = <<>>
    /\ sf_ops = <<>>
    /\ sf_records = <<>>
    /\ sf_updates = <<>>

Init == pc = "scrape" /\ Fresh /\ raw_events = <<>> /\ cleaned_events = <<>>

\* One fetch of scrape_events_from_web: the try block of an adapter (of one
\* site, for _scrape_local_events_sites), which adds to the adapter's list,
\* and, when it is the last fetch of its source function, the return of the
\* adapter and events.extend(source_events) in the runner.
ScrapeUnit ==
    /\ pc = "scrape"
    /\ ~AdapterRaises(Units[unit], location)
    /\ \E o \in OutcomesFor(Units[unit], location) :
        LET u == Units[unit]
            list == IF u.first THEN <<>> ELSE source_events
        IN  /\ Len(raw_events) + Len(list) + Len(o.items) <= MaxPool
            /\ source_events' = list \o AdapterEvents(o, u.source)
            /\ failed' = AdapterFailed(o)
            /\ raw_events' = IF u.last THEN Extend(raw_events, source_events')
                                       ELSE raw_events
            /\ invoked' = IF u.first THEN Append(invoked, u.func) ELSE invoked
    /\ unit' = unit + 1
    /\ pc' = IF unit = NumUnits THEN "clean" ELSE "scrape"
    /\ UNCHANGED <<location, cleaned_events, clean_llm, fault, escaped, report,
                   sync_returns, sf_ops, sf_records, sf_updates>>

\* source_func(location, month, year) raises: except Exception in the runner
\* logs the error and the loop goes on with the next source function;
\* source_events keeps the list of the adapter that returned last.
ScrapeRaises ==
    /\ pc = "scrape"
    /\ AdapterRaises(Units[unit], location)
    /\ invoked' = Append(invoked, Units[unit].func)
    /\ failed' = TRUE
    /\ unit' = NextFunction(unit)
    /\ pc' = IF NextFunction(unit) > NumUnits THEN "clean" ELSE "scrape"
    /\ UNCHANGED <<location, source_events, raw_events, cleaned_events, clean_llm,
                   fault, escaped, report, sync_returns, sf_ops, sf_records, sf_updates>>

\* An exception e leaves the try body of the entry point.
Fail(e) ==
    /\ fault' = e
    /\ pc' = "done"
    /\ IF RunCatches(e)
       THEN report' = ErrorReport(e, location) /\ escaped' = FALSE
       ELSE report' = report /\ escaped' = TRUE

\* Step 2: cleaned_events = self.process_and_clean_events(raw_events)
Clean ==
    /\ pc = "clean"
    /\ \E o \in CleanOutcomes(raw_events) :
        LET r == process_and_clean_events(raw_events, o)
        IN  /\ clean_llm' = LlmCall(raw_events, o)
            /\ IF r.raised # "none"
               THEN Fail(r.raised) /\ UNCHANGED cleaned_events
               ELSE /\ cleaned_events' = r.value
                    /\ pc' = "sync"
                    /\ UNCHANGED <<fault, escaped, report>>
    /\ UNCHANGED <<location, unit, invoked, failed, source_events, raw_events, sync_returns,
                   sf_ops, sf_records, sf_updates>>

\* Step 3: success = self.update_salesforce_location(...), and the report.
Sync ==
    /\ pc = "sync"
    /\ \E q \in QueryOutcomes, c \in CreateOutcomes, u \in UpdateOutcomes :
        LET r == update_salesforce_location(location, cleaned_events, q, c, u,
                                            sf_records, sf_updates)
        IN  /\ sync_returns' = Append(sync_returns, r.ret)
            /\ sf_ops' = r.ops
            /\ sf_records' = r.records
            /\ sf_updates' = r.updates
            /\ report' = SuccessReport(r.ret, location, raw_events, cleaned_events)
    /\ pc' = "done"
    /\ UNCHANGED <<location, unit, invoked, failed, source_events, raw_events, cleaned_events,
                   clean_llm, fault, escaped>>

Next == ScrapeUnit \/ ScrapeRaises \/ Clean \/ Sync

Spec == Init /\ [][Next]_vars

\* ------------------------------------- the sync step called again and again
\* The events the adapters can build.
CandidateEvents ==
    { Event(Get(x, "name"), Get(x, "date"), Get(x, "description"), Units[k].source) :
        x \in ExtractedObjects, k \in 1..NumUnits }

EventLists == BSeq(CandidateEvents, MaxPool)

\* update_salesforce_location called by a caller of its own, up to
\* MaxSyncCalls times on one location and one event list.
InitSync ==
    pc = "api" /\ Fresh /\ raw_events = <<>> /\ cleaned_events \in EventLists

SyncCall ==
    /\ pc = "api"
    /\ Len(sync_returns) < MaxSyncCalls
    /\ \E q \in QueryOutcomes, c \in CreateOutcomes, u \in UpdateOutcomes :
        LET r == update_salesforce_location(location, cleaned_events, q, c, u,
                                            sf_records, sf_updates)
        IN  /\ sync_returns' = Append(sync_returns, r.ret)
            /\ sf_ops' = r.ops
            /\ sf_records' = r.records
            /\ sf_updates' = r.updates
    /\ UNCHANGED <<pc, location, unit, invoked, failed, source_events, raw_events,
                   cleaned_events, clean_llm, fault, escaped, report>>

NextSync == SyncCall

SpecSync == InitSync /\ [][NextSync]_vars

\* ------------------------------------ the cleaning step applied to its output
InitClean ==
    pc = "clean_in" /\ Fresh /\ raw_events \in EventLists /\ cleaned_events = <<>>

\* cleaned_events = process_and_clean_events(raw_events)
CleanOnce ==
    /\ pc = "clean_in"
    /\ \E o \in CleanOutcomes(raw_events) :
        LET r == process_and_clean_events(raw_events, o)
        IN  /\ clean_llm' = LlmCall(raw_events, o)
            /\ fault' = r.raised
            /\ cleaned_events' = r.value
            /\ pc' = IF r.raised # "none" THEN "clean_raised" ELSE "clean_out"
    /\ UNCHANGED <<location, unit, invoked, failed, source_events, raw_events, escaped,
                   report, sync_returns, sf_ops, sf_records, sf_updates>>

\* The output becomes the input of a second application.
CleanAgain ==
    /\ pc = "clean_out"
    /\ \E o \in CleanOutcomes(cleaned_events) :
        LET r == process_and_clean_events(cleaned_events, o)
        IN  /\ clean_llm' = LlmCall(cleaned_events, o)
            /\ fault' = r.raised
            /\ raw_events' = cleaned_events
            /\ cleaned_events' = r.value
            /\ pc' = IF r.raised # "none" THEN "clean_raised" ELSE "clean_twice"
    /\ UNCHANGED <<location, unit, invoked, failed, source_events, escaped, report,
                   sync_returns, sf_ops, sf_records, sf_updates>>

NextClean == CleanOnce \/ CleanAgain

SpecClean == InitClean /\ [][NextClean]_vars

\* ================================================================ claims
\* Vocabulary of the statements below.
MonthIndex(m) == CASE m = "January" -> 1 [] m = "February" -> 2 [] OTHER -> 0

\* <<year, month>> of a date in the form YYYY-MM-DD, <<>> when there is none.
ParsedDate(d) ==
    CASE d = "2024-01-15" -> <<2024, 1>>
      [] d = "2024-02-20" -> <<2024, 2>>
      [] OTHER -> <<>>

InWindow(d) == ParsedDate(d) = <<WindowYear, MonthIndex(WindowMonth)>>

ValidEvent(e) == e.name # "" /\ InWindow(e.date)

\* Events whose names and dates are equal string for string have equal
\* fingerprints under every normalization.
SameFingerprint(e, f) == e.name = f.name /\ e.date = f.date

UniqueFingerprints(events) ==
    \A i, j \in 1..Len(events) : i # j => ~SameFingerprint(events[i], events[j])

\* A canonical list: every event valid, no fingerprint twice.
Canonical(events) ==
    /\ UniqueFingerprints(events)
    /\ \A i \in 1..Len(events) : ValidEvent(events[i])

HasField(r, f) == f \in DOMAIN r

\* The create of the latest sync call ended in c.
CreateEnded(c) == Len(sf_ops) >= 2 /\ sf_ops[2] = Op("create", c)

UpdateIssued == Len(sf_ops) >= 3 /\ sf_ops[3].op = "update"

\* C1: the entry point never lets an exception out: whatever the fetcher, the
\* LLM and the CRM do, the run ends with a returned report, and an exception
\* that reached the entry point's handler is the report's error, with
\* success = false.
C1_NeverRaises ==
    /\ ~escaped
    /\ pc = "done" =>
        /\ report.returned
        /\ fault # "none" =>
            HasField(report, "error") /\ report.error = fault /\ ~report.success

\* C1 witness: after a failing fetch the cleaning step raised, and the run
\* returned the error report.
C1_Witness ==
    pc = "done" /\ failed /\ fault = "AttributeError" /\ report.returned

\* C2: a fetch, failing or not, never removes what the earlier adapters put in
\* the pool and never ends the run: the pool before the fetch is a prefix of
\* the pool after it, a returning adapter's whole list is appended, a later
\* fetch or the cleaning step follows, and all four source functions have been
\* called when the cleaning step starts.
C2_FailureIsolated ==
    [][pc = "scrape" =>
        /\ IsPrefix(raw_events, raw_events')
        /\ Units[unit].last => raw_events' = raw_events \o source_events'
        /\ unit' > unit
        /\ pc' \in {"scrape", "clean"}
        /\ fault' = "none" /\ ~escaped'
        /\ pc' = "clean" => invoked' = Sources]_vars

\* C2 witness: the last adapter failed and returned nothing, the pool holds
\* the other adapters' events and the run ended with success = true.
C2_Witness ==
    /\ pc = "done" /\ failed /\ source_events = <<>> /\ raw_events # <<>>
    /\ HasField(report, "success") /\ report.success

\* C3: the report's cleaned_events_count never exceeds its raw_events_count.
C3_CleanedAtMostRaw ==
    pc = "done" /\ HasField(report, "cleaned_events_count") =>
        report.cleaned_events_count <= report.raw_events_count

\* C4: the list handed to update_salesforce_location never holds two events
\* with equal fingerprints.
C4_CanonicalUnique == pc = "sync" => UniqueFingerprints(cleaned_events)

\* C5: no event with an empty name or with an absent or out-of-window date
\* reaches the sync step or the report's events list.
C5_OnlyValidReachSync ==
    pc = "sync" \/ (pc = "done" /\ HasField(report, "events")) =>
        \A i \in 1..Len(cleaned_events) : ValidEvent(cleaned_events[i])

\* C6: when the location lookup finds no record the report has success =
\* false and an error field, and no create and no update is issued.
C6_LocationNotFound ==
    pc = "done" /\ sf_ops = <<Op("query", "none")>> =>
        /\ ~report.success
        /\ HasField(report, "error")
        /\ sf_records = <<>> /\ sf_updates = <<>>

C8_FallbackOnlyOnSchema ==
    pc = "done" /\ (CreateEnded("transient_error") \/ CreateEnded("permanent_error")) =>
        ~UpdateIssued /\ sf_updates = <<>> /\ ~report.success

\* C9: however many sync calls succeed on one location and one canonical
\* event list, the CRM holds no two detail records with one fingerprint.
C9_SyncIdempotent ==
    pc = "api" /\ Canonical(cleaned_events) =>
        \A i, j \in 1..Len(sf_records) :
            i # j => \/ sf_records[i].Name # sf_records[j].Name
                     \/ sf_records[i].Event_Date__c # sf_records[j].Event_Date__c
                     \/ sf_records[i].Location__c # sf_records[j].Location__c

\* C10: the cleaning step applied to its own output returns the same set of
\* events (raw_events holds the first output, cleaned_events the second).
C10_CleanIdempotent ==
    pc = "clean_twice" => Range(cleaned_events) = Range(raw_events)

\* C11: a fetch that failed (an error or a warning was logged) leaves the
\* adapter's list empty: no candidate built before the failure is returned.
\* Stated for the fetches that start their adapter's list.
C11_FailureYieldsEmpty ==
    unit > 1 /\ Units[unit - 1].first /\ failed => source_events = <<>>

SourceRank(source) ==
    CASE source = "Eventbrite" -> 1
      [] source = "Ticketmaster" -> 2
      [] source = "Local Events" -> 3
      [] source = "TripAdvisor" -> 4
      [] OTHER -> 0

\* C12: the pool is the concatenation of the adapters' lists in the order
\* Eventbrite, Ticketmaster, local sites, TripAdvisor: each source function is
\* called once, in that order; the pool grows exactly by the list of an
\* adapter when that adapter returns and not at all when it raises; so the
\* events of the pool are in the order of their sources.
C12_PoolIsConcatenation ==
    /\ [][pc = "scrape" =>
            /\ invoked' = IF Units[unit].first THEN Append(invoked, Units[unit].func)
                                               ELSE invoked
            /\ raw_events' =
                 IF Units[unit].last /\ ~AdapterRaises(Units[unit], location)
                 THEN raw_events \o source_events'
                 ELSE raw_events]_vars
    /\ [](pc \in {"clean", "sync", "done"} => invoked = Sources)
    /\ [](\A i, j \in 1..Len(raw_events) :
            i < j => SourceRank(raw_events[i].source) <= SourceRank(raw_events[j].source))

\* C12 witness: the local-sites adapter raised, all four source functions were
\* called and the pool holds the event of Eventbrite, then the one of
\* Ticketmaster.
C12_Witness ==
    /\ pc = "clean" /\ location = NotAString /\ invoked = Sources
    /\ Len(raw_events) = 2
    /\ raw_events[1].source = "Eventbrite" /\ raw_events[2].source = "Ticketmaster"

\* C13: in one sync call the location lookup comes first; a create is issued
\* at most once and only after the lookup found a record; an update is issued
\* at most once and only after that create failed; the call returns true
\* exactly when the create or the fallback update succeeded, and a failing
\* fallback update makes it return false with no exception leaving it.
C13_SyncOrder ==
    sync_returns # <<>> =>
        LET n == Len(sf_ops)
            ret == sync_returns[Len(sync_returns)]
        IN  /\ n \in 1..3
            /\ sf_ops[1].op = "query"
            /\ n >= 2 => sf_ops[1].outcome = "found" /\ sf_ops[2].op = "create"
            /\ n = 3 => sf_ops[2].outcome # "ok" /\ sf_ops[3].op = "update"
            /\ ret <=> \/ (n >= 2 /\ sf_ops[2].outcome = "ok")
                       \/ (n = 3 /\ sf_ops[3].outcome = "ok")
            /\ ~escaped /\ fault = "none"
            /\ pc = "done" => report.returned /\ report.success = ret

\* C13 witness: the create failed, the fallback update failed too and the
\* call returned false into a returned report.
C13_Witness ==
    /\ pc = "done" /\ Len(sf_ops) = 3 /\ sf_ops[3] = Op("update", "raise")
    /\ sync_returns = <<FALSE>> /\ report.returned

ReportEvents(events) ==
    [i \in 1..Len(events) |->
        [name |-> events[i].name, date |-> events[i].date, source |-> events[i].source]]

\* C14: when the cleaning response is not JSON the cleaning step returns the
\* raw list as it is, and the run syncs and reports that list, with
\* cleaned_events_count equal to raw_events_count; when the raw list is empty
\* the LLM is not called for cleaning and the sync step still runs, on the
\* empty list.
C14_CleanFallback ==
    /\ pc \in {"sync", "done"} /\ clean_llm = "bad_json" =>
        /\ cleaned_events = raw_events
        /\ pc = "done" =>
            /\ report.cleaned_events_count = report.raw_events_count
            /\ report.raw_events_count = Len(raw_events)
            /\ report.events = ReportEvents(raw_events)
            /\ CreateEnded("ok") =>
                 sf_records = EventsData(raw_events, LocationIds[location])
            /\ UpdateIssued /\ sf_ops[3].outcome = "ok" =>
                 sf_updates[1].Events_Summary__c = EventsSummary(raw_events)
    /\ pc \in {"sync", "done"} /\ raw_events = <<>> =>
        /\ clean_llm = "not_called"
        /\ cleaned_events = <<>>
        /\ pc = "done" => sf_ops # <<>> /\ HasField(report, "events") /\ report.events = <<>>

\* C14 witness: the pool held the same event from two sources, the cleaning
\* response was not JSON, and both events were created in the CRM and
\* reported.
C14_Witness ==
    /\ pc = "done" /\ clean_llm = "bad_json" /\ Len(raw_events) = 2
    /\ SameFingerprint(raw_events[1], raw_events[2])
    /\ CreateEnded("ok") /\ Len(sf_records) = 2
    /\ report.cleaned_events_count = 2

====
